---- MODULE Spec2Model ----
(***************************************************************************)
(* Dependency-graph construction, cycle detection and budgeted slicing of  *)
(* repointel (src/core/api-graph.ts, src/core/route-graph.ts), as a state  *)
(* machine.  One action is one loop iteration (or one call/return step of  *)
(* the recursive dfs) of the TypeScript code.                              *)
(*                                                                         *)
(* Paths are the integers 1..NumFiles; their numeric order stands for the  *)
(* order String.prototype.localeCompare gives the relative paths.          *)
(* An import specifier is abstracted to what resolveImport makes of it:    *)
(*   [kind |-> "rel", to |-> p]  a relative or aliased specifier whose     *)
(*                               first candidate file would be path p      *)
(*   [kind |-> "pkg", to |-> k]  a bare specifier naming package k         *)
(***************************************************************************)
EXTENDS Integers, Sequences, FiniteSets, TLC

\* ------------------------------------------------------------------ bounds
NumFiles == 3
MaxImports == 3
MaxSeeds == 2
MaxDepthOpt == 1
NumPkgs == 1
MaxSliceImports == 1
MaxRouteFiles == 1

\* ------------------------------------------------------- program constants
Null == 0
DefaultGraphDepth == 10
DefaultSliceDepth == 5

VARIABLES
  op,            \* the exported function invoked
  disk,          \* paths for which fs.existsSync is true
  index,         \* relativePath -> FileRecord.imports of the repo index
  seeds,         \* the seeds argument
  optDepth,      \* options.depth: <<>> when undefined, <<n>> when given
  tsconfigFile,  \* tsconfig.json under the root: "missing", "malformed" or "paths"
  pc,            \* position in the invoked function
  maxDepth,
  queue, visited, nodes, edges, edgeMap,
  externalDeps,  \* buildDepGraph's set of external package names
  cycles, dfsVisited, recursionStack, currentPath,
  frames,        \* call stack of dfs: the node of each call and its loop index
  rootIdx,       \* position of detectCycles' loop over edges.keys()
  dfsCalls,      \* history: the argument of every dfs call, in call order
  fileIdx,       \* position of buildDepGraph's loop over index.files
  now,           \* the wall clock read by new Date()
  result,        \* the returned record (<<>> until the function returns)
  routeFiles,    \* sliceRoute: findRouteFiles(index, routePath)
  layoutFiles,   \* sliceRoute: findParentLayouts(index, routePath)
  opts,          \* the SliceOptions read by the slicer (<<>> in a graph builder)
  fsNow,         \* what fs.statSync / readFileSafe gave for each path read so far
  tokenBudget,   \* <<>> for null, <<n>> otherwise
  maxBytes, maxFileBytes,
  sortedNodes, sliceIdx, files, excluded, totalBytes, totalTokens,
  log,           \* history: per loop iteration, what was read and the totals before it
  run,           \* 1 in the first invocation, 2 in a repeated one
  first,         \* the record the first invocation returned
  graph,         \* requestFlowToMermaid: the DataFlowGraph argument
  participants,  \* requestFlowToMermaid: the Map from node id to alias
  lines,         \* requestFlowToMermaid: the lines pushed so far
  edgeIdx,       \* requestFlowToMermaid: position of the loop over graph.edges
  selectedAction, customRequest, proposedPlan, feedback,
  written,       \* runProposeConfirmLoop: the fs.writeFileSync calls, in order
  console,       \* runProposeConfirmLoop: the notices printed, in order
  answers        \* history: what the user answered to each prompt, in order

inputVars == <<op, disk, index, seeds, optDepth, tsconfigFile>>
graphVars == <<maxDepth, queue, visited, nodes, edges, edgeMap, externalDeps, fileIdx>>
cycleVars == <<cycles, dfsVisited, recursionStack, currentPath, frames, rootIdx, dfsCalls>>
sliceIn == <<routeFiles, layoutFiles>>
sliceVars == <<opts, fsNow, tokenBudget, maxBytes, maxFileBytes, sortedNodes, sliceIdx,
               files, excluded, totalBytes, totalTokens, log>>
runVars == <<run, first>>
flowVars == <<graph, participants, lines, edgeIdx>>
loopVars == <<selectedAction, customRequest, proposedPlan, feedback, written, console,
              answers>>
vars == <<inputVars, pc, graphVars, cycleVars, now, result, sliceIn, sliceVars, runVars,
          flowVars, loopVars>>

Paths == 1..NumFiles

Specifiers ==
  [kind : {"rel"}, to : Paths] \cup [kind : {"pkg"}, to : 1..NumPkgs]

\* options.x || dflt, for an optional numeric option
Truthy(opt) == opt # <<>> /\ opt[1] # 0
OrDefault(opt, dflt) == IF Truthy(opt) THEN opt[1] ELSE dflt

\* ---------------------------------------------------------------- resolver
tryResolveFile(basePath) ==
  IF basePath \in disk THEN basePath ELSE Null

\* a resolver that looks every specifier up in the file tree
resolveAnything(importSpec, fromFile) ==
  [path |-> tryResolveFile(importSpec.to), isExternal |-> FALSE]

resolveImport(importSpec, fromFile) ==
  IF importSpec.kind = "pkg"
    THEN [path |-> Null, isExternal |-> TRUE]
    ELSE [path |-> tryResolveFile(importSpec.to), isExternal |-> FALSE]

\* fileInfo?.imports || []
ImportsOf(p) == IF p \in DOMAIN index THEN index[p] ELSE <<>>

\* the resolvedImports array a builder collects for one file, in import order
ResolvedImports(p) ==
  LET r(i) == resolveImport(ImportsOf(p)[i], p)
      keep == SelectSeq([i \in 1..Len(ImportsOf(p)) |-> i],
                        LAMBDA i : ~r(i).isExternal /\ r(i).path # Null)
  IN  [j \in 1..Len(keep) |-> r(keep[j]).path]

\* Map.get(key) || [] on the insertion-ordered edge map
EdgeMapGet(m, k) ==
  IF \E i \in 1..Len(m) : m[i].key = k
    THEN m[CHOOSE i \in 1..Len(m) : m[i].key = k].vals
    ELSE <<>>

\* Array.prototype.indexOf
IndexOf(s, x) ==
  IF \E i \in 1..Len(s) : s[i] = x
    THEN CHOOSE i \in 1..Len(s) : s[i] = x /\ \A j \in 1..(i - 1) : s[j] # x
    ELSE 0 - 1

Range(s) == {s[i] : i \in 1..Len(s)}

\* --------------------------------------------------------------- the inputs
\* every assignment of import lists to the files in ps, at most m imports in all
RECURSIVE IndexesOver(_, _)
IndexesOver(ps, m) ==
  IF ps = {} THEN {<<>>}
  ELSE LET p == CHOOSE x \in ps : \A y \in ps : x >= y
       IN  UNION {{(p :> s) @@ f : s \in [1..k -> Specifiers],
                                   f \in IndexesOver(ps \ {p}, m - k)} : k \in 0..m}

\* the file tree: every path exists, or the last one does not
Disks == {Paths, Paths \ {NumFiles}}

SeedLists == UNION {[1..k -> Paths] : k \in 0..MaxSeeds}

DepthOptions == {<<>>} \cup {<<d>> : d \in 0..MaxDepthOpt}

GraphOps == {"buildDepGraph", "buildDepGraphFromSeeds"}

\* requestFlowToMermaid is not running
NoDiagram == graph = <<>> /\ participants = <<>> /\ lines = <<>> /\ edgeIdx = 1

\* runProposeConfirmLoop is not running
NoSession ==
  /\ selectedAction = <<>> /\ customRequest = <<>> /\ proposedPlan = <<>>
  /\ feedback = <<>> /\ written = <<>> /\ console = <<>> /\ answers = <<>>

\* the locals of a graph builder before its first loop (api-graph.ts 1260-1280)
Entry ==
  /\ maxDepth = IF op \in GraphOps
                  THEN OrDefault(optDepth, DefaultGraphDepth)
                  ELSE OrDefault(<<OrDefault(optDepth, DefaultSliceDepth)>>, DefaultGraphDepth)
  /\ queue = [i \in 1..Len(seeds) |-> [path |-> seeds[i], depth |-> 0]]
  /\ visited = {}
  /\ nodes = <<>>
  /\ edges = <<>>
  /\ edgeMap = <<>>
  /\ externalDeps = {}
  /\ fileIdx = 1
  /\ cycles = <<>>
  /\ dfsVisited = {}
  /\ recursionStack = {}
  /\ currentPath = <<>>
  /\ frames = <<>>
  /\ rootIdx = 1
  /\ dfsCalls = <<>>
  /\ result = <<>>
  /\ opts = <<>>
  /\ fsNow = <<>>
  /\ tokenBudget = <<>>
  /\ maxBytes = 0
  /\ maxFileBytes = 0
  /\ sortedNodes = <<>>
  /\ sliceIdx = 1
  /\ files = <<>>
  /\ excluded = <<>>
  /\ totalBytes = 0
  /\ totalTokens = 0
  /\ log = <<>>

Init ==
  /\ op \in GraphOps
  /\ disk \in Disks
  /\ index \in IndexesOver(disk, MaxImports)
  /\ IF op = "buildDepGraphFromSeeds"
       THEN seeds \in SeedLists /\ optDepth \in DepthOptions
       ELSE seeds = <<>> /\ optDepth = <<>>
  /\ tsconfigFile = "missing"
  /\ routeFiles = <<>> /\ layoutFiles = <<>>
  /\ pc = "build"
  /\ now = 0
  /\ run = 1 /\ first = <<>>
  /\ NoDiagram /\ NoSession
  /\ Entry

\* ------------------------------------------------- buildDepGraphFromSeeds
\* `queue[0]` without removing it
Peek(q) == [item |-> Head(q), rest |-> q]

\* `queue.pop()`: the newest entry
Pop(q) == [item |-> q[Len(q)], rest |-> SubSeq(q, 1, Len(q) - 1)]

\* `queue.shift()`: the oldest entry and the queue left behind
Shift(q) == [item |-> Head(q), rest |-> Tail(q)]

\* only the depth test
SkipDeep(path, depth) == depth > maxDepth

\* a depth test that also drops the paths at the limit itself
SkipAtLimit(path, depth) == path \in visited \/ depth >= maxDepth

\* `if (visited.has(currentPath)) continue; if (depth > maxDepth) continue;`
Skip(path, depth) == path \in visited \/ depth > maxDepth

\* one iteration of the BFS loop `while (queue.length > 0)`
BfsStep ==
  /\ pc = "build"
  /\ op # "buildDepGraph"
  /\ queue # <<>>
  /\ LET currentPathQ == Shift(queue).item.path
         depth == Shift(queue).item.depth
         rest == Shift(queue).rest
     IN IF Skip(currentPathQ, depth)
          THEN /\ queue' = rest
               /\ UNCHANGED <<visited, nodes, edges, edgeMap>>
          ELSE LET resolvedImports == ResolvedImports(currentPathQ)
                   seen == visited \cup {currentPathQ}
                   fresh == SelectSeq(resolvedImports, LAMBDA r : r \notin seen)
               IN /\ visited' = seen
                  /\ nodes' = Append(nodes, [id |-> currentPathQ, depth |-> depth,
                                             isCircular |-> FALSE])
                  /\ edges' = edges \o [i \in 1..Len(resolvedImports) |->
                                          [from |-> currentPathQ, to |-> resolvedImports[i]]]
                  /\ queue' = rest \o [i \in 1..Len(fresh) |->
                                          [path |-> fresh[i], depth |-> depth + 1]]
                  /\ edgeMap' = Append(edgeMap, [key |-> currentPathQ,
                                                 vals |-> resolvedImports])
  /\ UNCHANGED <<inputVars, flowVars, loopVars, pc, maxDepth, externalDeps, fileIdx, cycleVars, now, result, sliceIn, sliceVars, runVars>>

\* the BFS loop ends: detectCycles(edgeMap) is called
BfsDone ==
  /\ pc = "build"
  /\ op # "buildDepGraph"
  /\ ~(op = "sliceRoute" /\ seeds = <<>>)
  /\ queue = <<>>
  /\ pc' = "cycles"
  /\ UNCHANGED <<inputVars, flowVars, loopVars, graphVars, cycleVars, now, result, sliceIn, sliceVars, runVars>>

\* ----------------------------------------------------------- buildDepGraph
\* index.files, in the order the indexer lists them
RECURSIVE Ascending(_)
Ascending(ps) ==
  IF ps = {} THEN <<>>
  ELSE LET p == CHOOSE x \in ps : \A y \in ps : x <= y
       IN  <<p>> \o Ascending(ps \ {p})

IndexFiles == Ascending(DOMAIN index)

\* the package names of the external specifiers of one file
ExternalPkgs(p) ==
  {ImportsOf(p)[i].to : i \in {j \in 1..Len(ImportsOf(p)) :
                                  resolveImport(ImportsOf(p)[j], p).isExternal}}

\* one iteration of `for (const file of index.files)`
FullStep ==
  /\ pc = "build"
  /\ op = "buildDepGraph"
  /\ fileIdx <= Len(IndexFiles)
  /\ LET file == IndexFiles[fileIdx]
         resolvedImports == ResolvedImports(file)
     IN /\ nodes' = Append(nodes, [id |-> file, isCircular |-> FALSE])
        /\ externalDeps' = externalDeps \cup ExternalPkgs(file)
        /\ edges' = edges \o [i \in 1..Len(resolvedImports) |->
                                [from |-> file, to |-> resolvedImports[i]]]
        /\ edgeMap' = Append(edgeMap, [key |-> file, vals |-> resolvedImports])
  /\ fileIdx' = fileIdx + 1
  /\ UNCHANGED <<inputVars, flowVars, loopVars, pc, maxDepth, queue, visited, cycleVars, now, result, sliceIn, sliceVars, runVars>>

FullDone ==
  /\ pc = "build"
  /\ op = "buildDepGraph"
  /\ fileIdx > Len(IndexFiles)
  /\ pc' = "cycles"
  /\ UNCHANGED <<inputVars, flowVars, loopVars, graphVars, cycleVars, now, result, sliceIn, sliceVars, runVars>>

\* ------------------------------------------------------------ detectCycles
\* dfs(node) is entered: the three statements before its loop
DfsEnter(node) ==
  /\ dfsVisited' = dfsVisited \cup {node}
  /\ recursionStack' = recursionStack \cup {node}
  /\ currentPath' = Append(currentPath, node)
  /\ dfsCalls' = Append(dfsCalls, node)

\* a stack test that overlooks the node whose neighbors are being visited
OnStackBelowTop(neighbor) ==
  neighbor \in recursionStack \ {currentPath[Len(currentPath)]}

\* recursionStack.has(neighbor)
OnStack(neighbor) == neighbor \in recursionStack

\* a slice that starts one entry late
CycleTail(path, neighbor) ==
  SubSeq(path, IndexOf(path, neighbor) + 1, Len(path))

\* the whole current path in place of its slice
CycleWholePath(path, neighbor) == path

\* currentPath.slice(currentPath.indexOf(neighbor))
CycleSlice(path, neighbor) ==
  SubSeq(path, IndexOf(path, neighbor), Len(path))

\* one iteration of `for (const node of edges.keys())`, outside any dfs call
DfsRoot ==
  /\ pc = "cycles"
  /\ frames = <<>>
  /\ rootIdx <= Len(edgeMap)
  /\ LET node == edgeMap[rootIdx].key
     IN IF node \notin dfsVisited
          THEN /\ DfsEnter(node)
               /\ frames' = <<[node |-> node, i |-> 1]>>
          ELSE UNCHANGED <<dfsVisited, recursionStack, currentPath, dfsCalls, frames>>
  /\ rootIdx' = rootIdx + 1
  /\ UNCHANGED <<inputVars, flowVars, loopVars, pc, graphVars, cycles, now, result, sliceIn, sliceVars, runVars>>

\* inside the innermost dfs call: one iteration of its neighbor loop, or its return
DfsStep ==
  /\ pc = "cycles"
  /\ frames # <<>>
  /\ LET top == frames[Len(frames)]
         below == SubSeq(frames, 1, Len(frames) - 1)
         neighbors == EdgeMapGet(edgeMap, top.node)
     IN IF top.i > Len(neighbors)
          THEN /\ currentPath' = SubSeq(currentPath, 1, Len(currentPath) - 1)
               /\ recursionStack' = recursionStack \ {top.node}
               /\ frames' = below
               /\ UNCHANGED <<dfsVisited, dfsCalls, cycles>>
          ELSE LET neighbor == neighbors[top.i]
                   advanced == Append(below, [node |-> top.node, i |-> top.i + 1])
               IN IF neighbor \notin dfsVisited
                    THEN /\ DfsEnter(neighbor)
                         /\ frames' = Append(advanced, [node |-> neighbor, i |-> 1])
                         /\ UNCHANGED cycles
                    ELSE /\ frames' = advanced
                         /\ cycles' =
                              IF OnStack(neighbor)
                                   /\ IndexOf(currentPath, neighbor) # 0 - 1
                                THEN Append(cycles, CycleSlice(currentPath, neighbor))
                                ELSE cycles
                         /\ UNCHANGED <<dfsVisited, recursionStack, currentPath, dfsCalls>>
  /\ UNCHANGED <<inputVars, flowVars, loopVars, pc, graphVars, rootIdx, now, result, sliceIn, sliceVars, runVars>>

\* detectCycles returns
DfsDone ==
  /\ pc = "cycles"
  /\ frames = <<>>
  /\ rootIdx > Len(edgeMap)
  /\ pc' = "mark"
  /\ UNCHANGED <<inputVars, flowVars, loopVars, graphVars, cycleVars, now, result, sliceIn, sliceVars, runVars>>

\* cycles.flat() as a set
CycleMembers(cs) == UNION {Range(cs[i]) : i \in 1..Len(cs)}

\* a marking that looks at the first cycle only
MarkedFirstCycle(ns, cs) ==
  [i \in 1..Len(ns) |->
     IF cs # <<>> /\ ns[i].id \in Range(cs[1])
       THEN [ns[i] EXCEPT !.isCircular = TRUE] ELSE ns[i]]

\* `for (const node of nodes) if (cycleMembers.has(node.id)) node.isCircular = true`
MarkedNodes(ns, cs) ==
  [i \in 1..Len(ns) |->
     IF ns[i].id \in CycleMembers(cs) THEN [ns[i] EXCEPT !.isCircular = TRUE] ELSE ns[i]]

MarkCircular ==
  /\ pc = "mark"
  /\ nodes' = MarkedNodes(nodes, cycles)
  /\ pc' = "return"
  /\ UNCHANGED <<inputVars, flowVars, loopVars, maxDepth, queue, visited, edges, edgeMap, externalDeps,
                 fileIdx, cycleVars, now, result, sliceIn, sliceVars, runVars>>

\* the DepGraph record a builder returns
DepGraphRecord ==
  [generatedAt |-> now,
   nodes |-> nodes,
   edges |-> edges,
   cycles |-> cycles,
   stats |-> [totalNodes |-> Len(nodes),
              totalEdges |-> Len(edges),
              externalDeps |-> IF op = "buildDepGraph" THEN Cardinality(externalDeps) ELSE 0,
              circularDeps |-> Len(cycles)]]

ReturnGraph ==
  /\ pc = "return"
  /\ op \in GraphOps
  /\ result' = DepGraphRecord
  /\ pc' = "done"
  /\ UNCHANGED <<inputVars, flowVars, loopVars, graphVars, cycleVars, now, sliceIn, sliceVars, runVars>>

Next ==
  \/ BfsStep \/ BfsDone
  \/ FullStep \/ FullDone
  \/ DfsRoot \/ DfsStep \/ DfsDone
  \/ MarkCircular
  \/ ReturnGraph

Spec == Init /\ [][Next]_vars

\* ------------------------------------------------- sliceRoute, sliceFeature
SliceOps == {"sliceFeature", "sliceRoute"}

\* [...new Set([...routeFiles, ...layoutFiles])]
Dedupe(s) ==
  LET keep == SelectSeq([i \in 1..Len(s) |-> i],
                        LAMBDA i : \A j \in 1..(i - 1) : s[j] # s[i])
  IN  [k \in 1..Len(keep) |-> s[keep[k]]]

\* lists of distinct indexed files, as findRouteFiles and findParentLayouts return
RouteLists(d) ==
  {s \in UNION {[1..k -> d] : k \in 0..MaxRouteFiles} :
     \A i, j \in 1..Len(s) : s[i] = s[j] => i = j}

InitSlice ==
  /\ op \in SliceOps
  /\ disk \in (IF op = "sliceRoute" THEN {Paths} ELSE Disks)
  /\ index \in IndexesOver(disk, MaxSliceImports)
  /\ IF op = "sliceRoute"
       THEN /\ routeFiles \in RouteLists(disk)
            /\ layoutFiles \in RouteLists(disk)
            /\ seeds = Dedupe(routeFiles \o layoutFiles)
       ELSE /\ routeFiles = <<>> /\ layoutFiles = <<>>
            /\ seeds \in SeedLists
  /\ optDepth = <<>>
  /\ tsconfigFile = "missing"
  /\ pc = "build"
  /\ now = 0
  /\ run = 1 /\ first = <<>>
  /\ NoDiagram /\ NoSession
  /\ Entry

\* `throw new Error("No files found for route")`
RouteThrow ==
  /\ pc = "build"
  /\ op = "sliceRoute"
  /\ seeds = <<>>
  /\ pc' = "threw"
  /\ UNCHANGED <<inputVars, flowVars, loopVars, graphVars, cycleVars, now, result, sliceIn, sliceVars, runVars>>

\* byte sizes a file of the tree may have
Sizes == {30, 40, 70}

\* the size of a file that statSync can see and readFileSync cannot read
UnreadableSize == 30

\* what statSync and readFileSafe give for a file: statSync throws; or the
\* byte size and the length of the (ASCII) content; or the byte size and no
\* content, readFileSafe having returned null (`|| ""`)
FileStates ==
  {[ok |-> FALSE, readable |-> FALSE, size |-> 0, chars |-> 0]}
    \cup {[ok |-> TRUE, readable |-> TRUE, size |-> n, chars |-> n] : n \in Sizes}
    \cup {[ok |-> TRUE, readable |-> FALSE, size |-> UnreadableSize, chars |-> 0]}

\* the SliceOptions of a call; exclude stands for the set of relative paths
\* that some pattern of options.exclude matches
OptionChoices ==
  {o \in [maxBytes : {<<>>, <<100>>},
          maxFileBytes : {<<>>, <<60>>},
          maxTokens : {<<>>, <<0>>, <<25>>},
          model : {<<>>, <<[contextWindow |-> 50, reserveForOutput |-> 20]>>},
          exclude : {{}, {2}}] :
     o.model = <<>> => o.maxTokens = <<>>}

\* Math.ceil(text.length / 3.5)
estimateTokens(len) == (2 * len + 6) \div 7

calculateTokenBudget(config) == config.contextWindow - config.reserveForOutput

matchesPatterns(path, exclude) == path \in exclude

\* the nodes left in the order the builder returned them
KeepOrder(ns) == ns

\* sort by (depth || 0, id.localeCompare); node ids are distinct
Before(a, b) == a.depth < b.depth \/ (a.depth = b.depth /\ a.id < b.id)

RECURSIVE SortNodes(_)
SortNodes(ns) ==
  IF ns = <<>> THEN <<>>
  ELSE LET m == CHOOSE i \in 1..Len(ns) : \A j \in 1..Len(ns) : ~Before(ns[j], ns[i])
       IN  <<ns[m]>> \o SortNodes(SubSeq(ns, 1, m - 1) \o SubSeq(ns, m + 1, Len(ns)))

\* buildDepGraphFromSeeds has returned to the slicer: budgets, then the sort
SliceStart ==
  /\ pc = "return"
  /\ op \in SliceOps
  /\ \E o \in (IF opts = <<>> THEN OptionChoices ELSE {opts}) :
       /\ opts' = o
       /\ tokenBudget' = IF o.model # <<>>
                           THEN <<OrDefault(o.maxTokens, calculateTokenBudget(o.model[1]))>>
                           ELSE <<>>
       /\ maxBytes' = OrDefault(o.maxBytes, 8 * 1024 * 1024)
       /\ maxFileBytes' = OrDefault(o.maxFileBytes, 400 * 1024)
  /\ sortedNodes' = SortNodes(nodes)
  /\ sliceIdx' = 1
  /\ files' = <<>>
  /\ excluded' = <<>>
  /\ totalBytes' = 0
  /\ totalTokens' = 0
  /\ pc' = "slice"
  /\ UNCHANGED <<inputVars, flowVars, loopVars, graphVars, cycleVars, now, result, sliceIn, fsNow, log, runVars>>

\* the budget test that forgets the running total
OverBudgetAlone(total, cost, ceiling) == cost > ceiling

\* `totalTokens + fileTokens > tokenBudget`, `totalBytes + sizeBytes > maxBytes`
OverBudget(total, cost, ceiling) == total + cost > ceiling

\* which branch of the loop body a node takes, given what the file system says
Branch(path, st) ==
  IF matchesPatterns(path, opts.exclude) THEN "pattern"
  ELSE IF ~st.ok THEN "stat"
  ELSE IF st.size > maxFileBytes THEN "cap"
  ELSE IF tokenBudget # <<>>
    THEN (IF OverBudget(totalTokens, estimateTokens(st.chars), tokenBudget[1])
            THEN "token_budget" ELSE "include")
  ELSE IF OverBudget(totalBytes, st.size, maxBytes) THEN "byte_budget"
  ELSE "include"

\* the reason string pushed to `excluded` in each excluding branch
ExcludedReason(branch) ==
  CASE branch = "pattern" -> "pattern"
    [] branch = "stat" -> "external"
    [] branch = "cap" -> "size"
    [] branch = "token_budget" -> "token_budget"
    [] branch = "byte_budget" -> "size"

\* a catch block that records nothing
ExcludeUnlessExternal(list, path, reason) ==
  IF reason = "external" THEN list ELSE Append(list, [file |-> path, reason |-> reason])

\* `excluded.push({ file: relativePath, reason })`
Exclude(list, path, reason) == Append(list, [file |-> path, reason |-> reason])

\* `break` in place of `continue`
BreakLoop(i, n) == n + 1

\* `continue`: on to the next node of sortedNodes
Continue(i, n) == i + 1

\* SliceFile.reason of an included file (no path of the model lies under convex/)
IncludeReason(path) ==
  IF op = "sliceRoute"
    THEN (IF path \in Range(seeds)
            THEN (IF path \in Range(layoutFiles) THEN "layout" ELSE "seed")
            ELSE "import")
    ELSE (IF path \in Range(seeds) THEN "seed" ELSE "import")

\* one iteration of `for (const node of sortedNodes)`
SliceStep ==
  /\ pc = "slice"
  /\ sliceIdx <= Len(sortedNodes)
  /\ LET node == sortedNodes[sliceIdx]
         relativePath == node.id
         reads == ~matchesPatterns(relativePath, opts.exclude)
     IN \E st \in (IF ~reads THEN {[ok |-> FALSE, readable |-> FALSE, size |-> 0, chars |-> 0]}
                   ELSE IF relativePath \in DOMAIN fsNow THEN {fsNow[relativePath]}
                   ELSE FileStates) :
          LET branch == Branch(relativePath, st)
              fileTokens == estimateTokens(st.chars)
          IN /\ fsNow' = IF reads THEN (relativePath :> st) @@ fsNow ELSE fsNow
             /\ log' = Append(log, [path |-> relativePath, branch |-> branch,
                                    size |-> st.size, tokens |-> fileTokens,
                                    bytesBefore |-> totalBytes,
                                    tokensBefore |-> totalTokens])
             /\ IF branch = "include"
                  THEN /\ files' = Append(files, [relativePath |-> relativePath,
                                                  sizeBytes |-> st.size,
                                                  depth |-> node.depth,
                                                  reason |-> IncludeReason(relativePath)])
                       /\ totalBytes' = totalBytes + st.size
                       /\ totalTokens' = totalTokens + fileTokens
                       /\ sliceIdx' = sliceIdx + 1
                       /\ UNCHANGED excluded
                  ELSE /\ excluded' = Exclude(excluded, relativePath, ExcludedReason(branch))
                       /\ sliceIdx' = IF branch \in {"token_budget", "byte_budget"}
                                        THEN Continue(sliceIdx, Len(sortedNodes))
                                        ELSE sliceIdx + 1
                       /\ UNCHANGED <<files, totalBytes, totalTokens>>
  /\ UNCHANGED <<inputVars, flowVars, loopVars, pc, graphVars, cycleVars, now, result, sliceIn, opts,
                 tokenBudget, maxBytes, maxFileBytes, sortedNodes, runVars>>

\* Math.max(...files.map((f) => f.depth), 0)
MaxFileDepth(fs) ==
  IF fs = <<>> THEN 0
  ELSE CHOOSE d \in {fs[i].depth : i \in 1..Len(fs)} :
         \A i \in 1..Len(fs) : fs[i].depth <= d

\* the ContextSlice record a slicer returns
ContextSliceRecord ==
  [generatedAt |-> now,
   seedFiles |-> seeds,
   files |-> files,
   excluded |-> excluded,
   summary |-> [totalFiles |-> Len(files),
                totalBytes |-> totalBytes,
                totalTokens |-> totalTokens,
                maxDepth |-> MaxFileDepth(files)],
   tokenBudget |-> IF tokenBudget # <<>>
                     THEN <<[availableForInput |-> tokenBudget[1],
                             used |-> totalTokens,
                             remaining |-> tokenBudget[1] - totalTokens]>>
                     ELSE <<>>]

ReturnSlice ==
  /\ pc = "slice"
  /\ sliceIdx > Len(sortedNodes)
  /\ result' = ContextSliceRecord
  /\ pc' = "done"
  /\ UNCHANGED <<inputVars, flowVars, loopVars, graphVars, cycleVars, now, sliceIn, sliceVars, runVars>>

NextSlice ==
  \/ RouteThrow
  \/ BfsStep \/ BfsDone
  \/ DfsRoot \/ DfsStep \/ DfsDone
  \/ MarkCircular
  \/ SliceStart \/ SliceStep
  \/ ReturnSlice

SpecSlice == InitSlice /\ [][NextSlice]_vars

\* ------------------------------------------------------ a second invocation
\* the caller invokes the same operation again, same arguments, same tree
Reinvoke ==
  /\ pc = "done"
  /\ run = 1
  /\ run' = 2
  /\ first' = result
  /\ \E t \in {now, now + 1} : now' = t
  /\ pc' = "build"
  /\ queue' = [i \in 1..Len(seeds) |-> [path |-> seeds[i], depth |-> 0]]
  /\ visited' = {}
  /\ nodes' = <<>>
  /\ edges' = <<>>
  /\ edgeMap' = <<>>
  /\ externalDeps' = {}
  /\ fileIdx' = 1
  /\ cycles' = <<>>
  /\ dfsVisited' = {}
  /\ recursionStack' = {}
  /\ currentPath' = <<>>
  /\ frames' = <<>>
  /\ rootIdx' = 1
  /\ dfsCalls' = <<>>
  /\ result' = <<>>
  /\ sortedNodes' = <<>>
  /\ sliceIdx' = 1
  /\ files' = <<>>
  /\ excluded' = <<>>
  /\ totalBytes' = 0
  /\ totalTokens' = 0
  /\ log' = <<>>
  /\ UNCHANGED <<inputVars, flowVars, loopVars, maxDepth, sliceIn, opts, fsNow, tokenBudget, maxBytes,
                 maxFileBytes>>

InitRepeat ==
  /\ Init
  /\ Len(seeds) <= 1
  /\ optDepth = <<>>

NextRepeat == Next \/ Reinvoke

SpecRepeat == InitRepeat /\ [][NextRepeat]_vars

\* ------------------------------------------- resolveImport, tryResolveFile
\* The resolver on spelled-out paths.  A path is the sequence of its
\* segments and a segment is its stem followed by its dot-suffixes:
\* "src/x.css.ts" is << <<"src">>, <<"x", ".css", ".ts">> >>.  An import
\* specifier is its prefix and the path after it: "@/x.js" is
\* [prefix |-> "@/", rest |-> << <<"x", ".js">> >>]; a bare specifier has
\* prefix "".  A string | null is <<>> for null and <<p>> for the path p.
\* A call is taken from the index: file fromFile imports importSpec.
MaxDiskFiles == 2

extensions == <<".tsx", ".ts", ".jsx", ".js", ".mjs">>

Front(s) == SubSeq(s, 1, Len(s) - 1)
Last(s) == s[Len(s)]

\* basePath.replace(/\.(tsx?|jsx?|mjs)$/, "")
StripExtension(basePath) ==
  IF Len(Last(basePath)) > 1 /\ Last(Last(basePath)) \in Range(extensions)
    THEN Append(Front(basePath), Front(Last(basePath)))
    ELSE basePath

\* stripped + ext
WithExtension(stripped, ext) == Append(Front(stripped), Append(Last(stripped), ext))

\* path.join(stripped, `index${ext}`)
IndexFile(stripped, ext) == Append(stripped, <<"index", ext>>)

\* the index files tried before the direct files
CandidatesIndexFirst(stripped) ==
  [i \in 1..Len(extensions) |-> IndexFile(stripped, extensions[i])]
    \o [i \in 1..Len(extensions) |-> WithExtension(stripped, extensions[i])]

\* the paths the two loops of tryResolveFile test, in the order they test them
Candidates(stripped) ==
  [i \in 1..Len(extensions) |-> WithExtension(stripped, extensions[i])]
    \o [i \in 1..Len(extensions) |-> IndexFile(stripped, extensions[i])]

\* the loops: return at the first candidate fs.existsSync accepts, else null;
\* probes are the paths handed to fs.existsSync
RECURSIVE FirstExisting(_, _)
FirstExisting(candidates, i) ==
  IF i > Len(candidates) THEN [path |-> <<>>, probes |-> candidates]
  ELSE IF candidates[i] \in disk
    THEN [path |-> <<candidates[i]>>, probes |-> SubSeq(candidates, 1, i)]
  ELSE FirstExisting(candidates, i + 1)

tryResolveFileAt(basePath) ==
  FirstExisting(Candidates(StripExtension(basePath)), 1)

\* path.normalize(path.join(path.dirname(fromFile), importSpec))
JoinFromDir(fromFile, importSpec) ==
  LET fromDir == Front(fromFile)
  IN  IF importSpec.prefix = "./" THEN fromDir \o importSpec.rest
      ELSE IF fromDir # <<>> THEN Front(fromDir) \o importSpec.rest
      ELSE << <<"..">> >> \o importSpec.rest

\* every specifier taken from the importing file's directory
BasePathFromDir(importSpec, fromFile) == Front(fromFile) \o importSpec.rest

\* the path handed to tryResolveFile: aliasPath, or the normalized join
BasePath(importSpec, fromFile) ==
  CASE importSpec.prefix = "@/" -> << <<"src">> >> \o importSpec.rest
    [] importSpec.prefix = "~/" -> importSpec.rest
    [] OTHER -> JoinFromDir(fromFile, importSpec)

\* a miss reported as an external package
MissIsExternal(resolved) == [path |-> resolved, isExternal |-> resolved = <<>>]

\* return { path: resolved, isExternal: false }
Internal(resolved) == [path |-> resolved, isExternal |-> FALSE]

\* the first test of resolveImport
IsPackage(importSpec) == importSpec.prefix \notin {"./", "../", "@/", "~/", "#"}

resolveImportAt(importSpec, fromFile) ==
  IF IsPackage(importSpec)
    THEN [path |-> <<>>, isExternal |-> TRUE, probes |-> <<>>]
  ELSE IF importSpec.prefix \in {"@/", "~/", "./", "../"}
    THEN LET r == tryResolveFileAt(BasePath(importSpec, fromFile))
             v == Internal(r.path)
         IN  [path |-> v.path, isExternal |-> v.isExternal, probes |-> r.probes]
  ELSE [path |-> <<>>, isExternal |-> TRUE, probes |-> <<>>]

\* what readFileSafe and JSON.parse make of tsconfig.json
TsConfigFiles == {"missing", "malformed", "paths"}

\* the TsConfigPaths handed to resolveImport: {} (here <<>>) when the file is
\* missing or does not parse, its compilerOptions.paths otherwise
loadTsConfigPaths ==
  IF tsconfigFile \in {"missing", "malformed"}
    THEN <<>>
    ELSE <<[baseUrl |-> ".", paths |-> {"@/*", "~/*"}]>>

\* the specifiers x, x.js and x.css behind every prefix
ImportSpecs ==
  [prefix : {"./", "../", "@/", "~/", "#", ""},
   rest : {<< <<"x">> >>, << <<"x", ".js">> >>, << <<"x", ".css">> >>}]

\* the importing file: a.ts at the repository root or under src/
FromFiles == {<< <<"a", ".ts">> >>, << <<"src">>, <<"a", ".ts">> >>}

\* the files that may exist: direct and index files for x and x.css at the
\* root, under src/ and above the root
FileUniverse ==
  {d \o f : d \in {<<>>, << <<"src">> >>},
            f \in {<< <<"x", e>> >> : e \in Range(extensions)}
                    \cup {<< <<"x">>, <<"index", e>> >> : e \in {".tsx", ".ts", ".mjs"}}
                    \cup {<< <<"x", ".css", ".ts">> >>, << <<"x", ".css">>, <<"index", ".ts">> >>}}
    \cup {<< <<"..">>, <<"x", ".ts">> >>}

InitResolve ==
  /\ op = "resolveImport"
  /\ disk \in {d \in SUBSET FileUniverse : Cardinality(d) <= MaxDiskFiles}
  /\ \E fromFile \in FromFiles, importSpec \in ImportSpecs :
       index = (fromFile :> <<importSpec>>)
  /\ seeds = <<>> /\ optDepth = <<>>
  /\ tsconfigFile \in TsConfigFiles
  /\ routeFiles = <<>> /\ layoutFiles = <<>>
  /\ pc = "resolve"
  /\ now = 0
  /\ run = 1 /\ first = <<>>
  /\ NoDiagram /\ NoSession
  /\ Entry

\* the call resolveImport(importSpec, fromFile, repoRoot, tsConfig)
ResolveCall ==
  /\ pc = "resolve"
  /\ op = "resolveImport"
  /\ LET fromFile == CHOOSE f \in DOMAIN index : TRUE
         r == resolveImportAt(index[fromFile][1], fromFile)
     IN  /\ result' = [path |-> r.path, isExternal |-> r.isExternal]
         /\ fsNow' = r.probes
  /\ pc' = "done"
  /\ UNCHANGED <<inputVars, flowVars, loopVars, graphVars, cycleVars, now, sliceIn, opts, tokenBudget,
                 maxBytes, maxFileBytes, sortedNodes, sliceIdx, files, excluded,
                 totalBytes, totalTokens, log, runVars>>

NextResolve == ResolveCall

SpecResolve == InitResolve /\ [][NextResolve]_vars

\* the resolver alone, and the two builders that call it
InitBuildResolve == Init \/ InitResolve

NextBuildResolve == Next \/ ResolveCall

SpecBuildResolve == InitBuildResolve /\ [][NextBuildResolve]_vars

\* ---------------------------------------------------- requestFlowToMermaid
\* A node label is the sequence of its characters; an optional string
\* (edge.label, edge.method) is <<>> when absent and <<s>> when given.  A
\* line of the diagram is a record of what its template literal prints, and
\* the returned string is the lines with a newline between neighbours.
MaxFlowEdges == 2

AliasLength == 15

\* `s.substring(0, n)`
Substring(s, n) == SubSeq(s, 1, IF Len(s) < n THEN Len(s) ELSE n)

\* `map.set(key, value)`
MapSet(map, key, value) ==
  [k \in DOMAIN map \cup {key} |-> IF k = key THEN value ELSE map[k]]

\* `map.get(key)`: <<>> for undefined
MapGet(map, key) == IF key \in DOMAIN map THEN <<map[key]>> ELSE <<>>

\* the truthiness of a string | undefined: undefined and "" are falsy
TruthyString(opt) == opt # <<>> /\ opt[1] # ""

\* the same for a string spelled out as its characters
TruthyChars(opt) == opt # <<>> /\ opt[1] # <<>>

\* `opt || dflt` for an optional string
StringOr(opt, dflt) == IF TruthyString(opt) THEN opt[1] ELSE dflt

\* `n.type === "page" || n.type === "component"`
IsPageOrComponent(node) == node.type \in {"page", "component"}

\* `n.type === "api" || n.type === "external"`
IsApiOrExternal(node) == node.type \in {"api", "external"}

\* `participant ${node.id} as ${alias}`
ParticipantLine(node) ==
  [kind |-> "participant", id |-> node.id, alias |-> Substring(node.label, AliasLength)]

\* the two loops over graph.nodes.filter(...): the map after them
RECURSIVE SetAll(_, _)
SetAll(map, ns) ==
  IF ns = <<>> THEN map
  ELSE SetAll(MapSet(map, Head(ns).id, Substring(Head(ns).label, AliasLength)), Tail(ns))

Declared(g) ==
  SelectSeq(g.nodes, IsPageOrComponent) \o SelectSeq(g.nodes, IsApiOrExternal)

\* `${edge.from}->>+${edge.to}: ${label}`
RequestLine(edge, label) ==
  [kind |-> "request", from |-> edge.from, to |-> edge.to, label |-> label]

\* `${edge.to}-->>-${edge.from}: data`
ResponseLine(edge, label) ==
  [kind |-> "response", from |-> edge.to, to |-> edge.from, label |-> label]

\* the body of the loop over graph.edges: the lines one edge pushes
Interaction(map, edge) ==
  LET from == MapGet(map, edge.from)
      to == MapGet(map, edge.to)
      label == StringOr(edge.label, edge.type)
  IN  IF edge.type = "import" THEN <<>>
      ELSE IF TruthyChars(from) /\ TruthyChars(to)
        THEN IF edge.type = "query"
               THEN <<RequestLine(edge, label), ResponseLine(edge, "data")>>
             ELSE IF edge.type = "mutation"
               THEN <<RequestLine(edge, label), ResponseLine(edge, "result")>>
             ELSE IF edge.type = "fetch"
               THEN <<RequestLine(edge, StringOr(edge.method, "GET")),
                      ResponseLine(edge, "response")>>
             ELSE <<>>
        ELSE <<>>

\* `lines.join("\n")`
Join(ls) ==
  [i \in 1..(IF ls = <<>> THEN 0 ELSE 2 * Len(ls) - 1) |->
     IF i % 2 = 1 THEN ls[(i + 1) \div 2] ELSE [kind |-> "newline"]]

\* the graphs drawn: two nodes, "comp" and "api", each of a participant
\* type or not, with an empty, a short or an over-long label, and up to
\* MaxFlowEdges edges between them
LongLabel == [i \in 1..AliasLength + 1 |-> "x"]

Labels == {<<>>, <<"L", "i", "s", "t">>, LongLabel}

NodeTypes == {"component", "api", "hook"}

FlowNodes ==
  {<<[id |-> "comp", label |-> l1, type |-> t1], [id |-> "api", label |-> l2, type |-> t2]>> :
     l1 \in Labels, t1 \in NodeTypes, l2 \in Labels, t2 \in NodeTypes}

FlowEdges ==
  [from : {"comp", "api"}, to : {"comp", "api"}, type : {"import", "props"},
   label : {<<>>}, method : {<<>>}]
  \cup [from : {"comp", "api"}, to : {"comp", "api"}, type : {"query", "mutation"},
        label : {<<>>, <<"useQuery">>}, method : {<<>>}]
  \cup [from : {"comp", "api"}, to : {"comp", "api"}, type : {"fetch"},
        label : {<<>>}, method : {<<>>, <<"POST">>}]

InitMermaid ==
  /\ op = "requestFlowToMermaid"
  /\ disk = {} /\ index = <<>> /\ seeds = <<>> /\ optDepth = <<>>
  /\ tsconfigFile = "missing"
  /\ routeFiles = <<>> /\ layoutFiles = <<>>
  /\ now = 0
  /\ run = 1 /\ first = <<>>
  /\ Entry
  /\ NoSession
  /\ \E ns \in FlowNodes, es \in UNION {[1..k -> FlowEdges] : k \in 0..MaxFlowEdges} :
       graph = [name |-> "flow", nodes |-> ns, edges |-> es]
  /\ participants = <<>>
  /\ lines = <<[kind |-> "text", text |-> "sequenceDiagram"],
               [kind |-> "comment", text |-> graph.name],
               [kind |-> "blank"]>>
  /\ edgeIdx = 1
  /\ pc = "participants"

\* lines 765-782: both participant loops and the blank line after them
FlowParticipants ==
  /\ pc = "participants"
  /\ participants' = SetAll(participants, Declared(graph))
  /\ lines' = lines \o [i \in 1..Len(Declared(graph)) |-> ParticipantLine(Declared(graph)[i])]
                    \o <<[kind |-> "blank"]>>
  /\ pc' = "edges"
  /\ UNCHANGED <<inputVars, graph, edgeIdx, loopVars, graphVars, cycleVars, now, result,
                 sliceIn, sliceVars, runVars>>

\* one iteration of `for (const edge of graph.edges)`
FlowEdge ==
  /\ pc = "edges"
  /\ edgeIdx <= Len(graph.edges)
  /\ lines' = lines \o Interaction(participants, graph.edges[edgeIdx])
  /\ edgeIdx' = edgeIdx + 1
  /\ UNCHANGED <<inputVars, graph, participants, loopVars, pc, graphVars, cycleVars, now,
                 result, sliceIn, sliceVars, runVars>>

\* `return lines.join("\n")`
FlowReturn ==
  /\ pc = "edges"
  /\ edgeIdx > Len(graph.edges)
  /\ result' = Join(lines)
  /\ pc' = "done"
  /\ UNCHANGED <<inputVars, flowVars, loopVars, graphVars, cycleVars, now, sliceIn,
                 sliceVars, runVars>>

NextMermaid == FlowParticipants \/ FlowEdge \/ FlowReturn

SpecMermaid == InitMermaid /\ [][NextMermaid]_vars

\* -------------------------------------------------- runProposeConfirmLoop
\* The loop waits at one prompt at a time; pc names the prompt ("select",
\* "describe", "plan", "confirm", "feedback", "revised") and is "returned"
\* once the function has returned.  An action is the user's answer to the
\* pending prompt and the code that runs up to the next prompt.
MaxAnswers == 5

\* the actions argument
Actions ==
  <<[title |-> "Add tests", description |-> "Cover the parser"],
    [title |-> "Write spec", description |-> ""]>>

\* the values of the two extra choices of the action menu
CustomRequest == 0 - 1

QuitChoice == 0 - 2

\* what the user may type at the text prompts
RequestTexts == {"", "Rename the command"}

PlanTexts == {"Plan A", "Skip"}

FeedbackTexts == {"Fewer steps"}

Prompts == {"select", "describe", "plan", "confirm", "feedback", "revised"}

\* `proposedPlan.toLowerCase()` on the texts above
ToLowerCase(s) == IF s = "Skip" THEN "skip" ELSE IF s = "Plan A" THEN "plan a" ELSE s

\* the name of a choice of the action menu
ChoiceName(selection) ==
  IF selection = CustomRequest THEN "[C] Custom request"
  ELSE IF selection = QuitChoice THEN "[Q] Quit"
  ELSE Actions[selection + 1].title

\* the history after the pending prompt is answered
Answered(answer) == Append(answers, [prompt |-> pc, answer |-> answer])

\* `fs.writeFileSync(file, content)`
WriteFile(file, content) == Append(written, [file |-> file, content |-> content])

\* generateProposalPrompt(state, selectedAction, decisionContext, customRequest, feedback)
generateProposalPrompt(action, request, fb) ==
  [action |-> action, customRequest |-> request, feedback |-> fb]

\* lines 779-796: the proposal prompt is written and the plan is asked for
Propose(action, request) ==
  /\ selectedAction' = <<action>>
  /\ customRequest' = request
  /\ written' = WriteFile("PROPOSAL_PROMPT.md", generateProposalPrompt(action, request, <<>>))
  /\ console' = console \o <<"Selected", "PROPOSAL PROMPT GENERATED">>
  /\ pc' = "plan"

\* `select(...)` answered with one of the listed actions or with Custom
SelectAction ==
  /\ pc = "select"
  /\ Len(answers) < MaxAnswers
  /\ \E selection \in (0..Len(Actions) - 1) \cup {CustomRequest} :
       /\ answers' = Answered(ChoiceName(selection))
       /\ IF selection = CustomRequest
            THEN /\ pc' = "describe"
                 /\ UNCHANGED <<selectedAction, customRequest, written, console>>
            ELSE Propose(Actions[selection + 1], <<>>)
  /\ UNCHANGED <<inputVars, flowVars, proposedPlan, feedback, graphVars, cycleVars, now,
                 result, sliceIn, sliceVars, runVars>>

\* `input({ message: "Describe what you want to do:" })` answered
DescribeRequest ==
  /\ pc = "describe"
  /\ Len(answers) < MaxAnswers
  /\ \E text \in RequestTexts :
       /\ answers' = Answered(text)
       /\ Propose([title |-> "Custom Request", description |-> text], <<text>>)
  /\ UNCHANGED <<inputVars, flowVars, proposedPlan, feedback, graphVars, cycleVars, now,
                 result, sliceIn, sliceVars, runVars>>

\* the plan that stands for a typed "skip"
SkippedPlan(action) ==
  [approvedAction |-> action.title,
   details |-> StringOr(<<action.description>>, "No details provided.")]

\* the first plan is pasted; `let feedback` starts undefined
PastePlan ==
  /\ pc = "plan"
  /\ Len(answers) < MaxAnswers
  /\ \E text \in PlanTexts :
       /\ answers' = Answered(text)
       /\ proposedPlan' = IF ToLowerCase(text) = "skip"
                            THEN <<SkippedPlan(selectedAction[1])>>
                            ELSE <<[text |-> text]>>
  /\ feedback' = <<>>
  /\ pc' = "confirm"
  /\ UNCHANGED <<inputVars, flowVars, selectedAction, customRequest, written, console,
                 graphVars, cycleVars, now, result, sliceIn, sliceVars, runVars>>

\* `confirmChoice === "approve"` or "modify"
ApprovesOrModifies(confirmChoice) == confirmChoice \in {"approve", "modify"}

\* `confirmChoice === "approve"`
Approves(confirmChoice) == confirmChoice = "approve"

\* the prompt after a confirm choice when `break` is missing
AfterConfirmNoBreak(confirmChoice) ==
  IF confirmChoice = "modify" THEN "feedback"
  ELSE IF confirmChoice = "reject" THEN "confirm"
  ELSE "returned"

\* the prompt after a confirm choice: approve ends both loops, modify asks
\* for feedback, reject breaks out to the next round of the outer loop
AfterConfirm(confirmChoice) ==
  IF confirmChoice = "modify" THEN "feedback"
  ELSE IF confirmChoice = "reject" THEN "select"
  ELSE "returned"

\* the content of APPROVED_PLAN.md
ApprovedContent ==
  [approvedAt |-> now, action |-> selectedAction[1].title, plan |-> proposedPlan[1]]

\* the confirm prompt answered with Approve, Modify or Reject
ConfirmChoice ==
  /\ pc = "confirm"
  /\ \E confirmChoice \in {"approve", "modify", "reject"} :
       /\ Approves(confirmChoice) \/ Len(answers) < MaxAnswers
       /\ answers' = Answered(confirmChoice)
       /\ pc' = AfterConfirm(confirmChoice)
       /\ IF Approves(confirmChoice)
            THEN /\ written' = WriteFile("APPROVED_PLAN.md", ApprovedContent)
                 /\ console' = console \o <<"Plan approved!", "ACT">>
                 /\ UNCHANGED <<selectedAction, customRequest, proposedPlan, feedback>>
          ELSE IF confirmChoice = "reject"
            THEN /\ console' = Append(console, "Going back to action selection...")
                 /\ selectedAction' = <<>> /\ customRequest' = <<>>
                 /\ proposedPlan' = <<>> /\ feedback' = <<>>
                 /\ UNCHANGED written
          ELSE UNCHANGED <<selectedAction, customRequest, proposedPlan, feedback, written,
                           console>>
  /\ UNCHANGED <<inputVars, flowVars, graphVars, cycleVars, now, result, sliceIn,
                 sliceVars, runVars>>

\* the feedback is typed: the proposal prompt is written again
GiveFeedback ==
  /\ pc = "feedback"
  /\ Len(answers) < MaxAnswers
  /\ \E text \in FeedbackTexts :
       /\ answers' = Answered(text)
       /\ feedback' = <<text>>
       /\ written' = WriteFile("PROPOSAL_PROMPT.md",
                       generateProposalPrompt(selectedAction[1], customRequest, <<text>>))
  /\ console' = Append(console, "Proposal prompt updated with your feedback.")
  /\ pc' = "revised"
  /\ UNCHANGED <<inputVars, flowVars, selectedAction, customRequest, proposedPlan,
                 graphVars, cycleVars, now, result, sliceIn, sliceVars, runVars>>

\* the revised plan is pasted; "skip" has no special meaning here
PasteRevisedPlan ==
  /\ pc = "revised"
  /\ Len(answers) < MaxAnswers
  /\ \E text \in PlanTexts :
       /\ answers' = Answered(text)
       /\ proposedPlan' = <<[text |-> text]>>
  /\ pc' = "confirm"
  /\ UNCHANGED <<inputVars, flowVars, selectedAction, customRequest, feedback, written,
                 console, graphVars, cycleVars, now, result, sliceIn, sliceVars, runVars>>

\* [Q] Quit, offered by the action menu and by the confirm prompt
Quit ==
  /\ pc \in {"select", "confirm"}
  /\ answers' = Answered(IF pc = "select" THEN ChoiceName(QuitChoice) ELSE "quit")
  /\ console' = Append(console, "Exiting.")
  /\ pc' = "returned"
  /\ UNCHANGED <<inputVars, flowVars, selectedAction, customRequest, proposedPlan,
                 feedback, written, graphVars, cycleVars, now, result, sliceIn,
                 sliceVars, runVars>>

\* Ctrl+C: the pending prompt rejects and the enclosing catch returns
CtrlC ==
  /\ pc \in Prompts
  /\ answers' = Answered("^C")
  /\ console' = Append(console, "Cancelled.")
  /\ pc' = "returned"
  /\ UNCHANGED <<inputVars, flowVars, selectedAction, customRequest, proposedPlan,
                 feedback, written, graphVars, cycleVars, now, result, sliceIn,
                 sliceVars, runVars>>

InitLoop ==
  /\ op = "runProposeConfirmLoop"
  /\ disk = {} /\ index = <<>> /\ seeds = <<>> /\ optDepth = <<>>
  /\ tsconfigFile = "missing"
  /\ routeFiles = <<>> /\ layoutFiles = <<>>
  /\ now = 0
  /\ run = 1 /\ first = <<>>
  /\ Entry
  /\ NoDiagram
  /\ NoSession
  /\ pc = "select"

NextLoop ==
  \/ SelectAction
  \/ DescribeRequest
  \/ PastePlan
  \/ ConfirmChoice
  \/ GiveFeedback
  \/ PasteRevisedPlan
  \/ Quit
  \/ CtrlC

SpecLoop == InitLoop /\ [][NextLoop]_vars

\* a run in which every enabled step is eventually taken
FairSpec == Spec /\ WF_vars(Next)

\* ===================================================================== claims
Seeded == op = "buildDepGraphFromSeeds"
Returned == pc = "done"
NodeIds(ns) == {ns[i].id : i \in 1..Len(ns)}

\* the resolved internal imports of the index, as a relation on paths
Imports(p) == Range(ResolvedImports(p))

\* the paths within k resolved internal imports of a seed
RECURSIVE Within(_)
Within(k) ==
  IF k = 0 THEN Range(seeds)
  ELSE Within(k - 1) \cup UNION {Imports(p) : p \in Within(k - 1)}

\* length of the shortest import chain from a seed to p (p reachable)
Dist(p) == CHOOSE k \in 0..NumFiles : p \in Within(k) /\ \A j \in 0..(k - 1) : p \notin Within(j)

\* C1: in the graph buildDepGraphFromSeeds returns, both endpoints of every
\* edge are ids of nodes of the returned node list.
C1_EdgeEndpointsAreNodes ==
  (Seeded /\ Returned) =>
    \A i \in 1..Len(result.edges) :
      /\ result.edges[i].from \in NodeIds(result.nodes)
      /\ result.edges[i].to \in NodeIds(result.nodes)

\* C5: in the returned seeded graph every seed has depth 0 and every node's
\* depth is the length of the shortest chain of resolved imports from a seed.
C5_DepthIsShortestDistance ==
  (Seeded /\ Returned) =>
    \A i \in 1..Len(result.nodes) :
      /\ result.nodes[i].id \in Within(NumFiles)
      /\ result.nodes[i].depth = Dist(result.nodes[i].id)
      /\ result.nodes[i].id \in Range(seeds) => result.nodes[i].depth = 0

\* a node at depth 1 that a sibling at depth 1 imports: it was in the queue at
\* depth 1 and again at depth 2
C5_Witness ==
  /\ Seeded /\ Returned
  /\ \E i, j \in 1..Len(result.nodes) :
       /\ i < j
       /\ result.nodes[i].depth = 1
       /\ result.nodes[j].depth = 1
       /\ \E e \in 1..Len(result.edges) :
            result.edges[e] = [from |-> result.nodes[i].id, to |-> result.nodes[j].id]

\* C6: no node of a seeded graph is deeper than the depth limit the caller
\* passed, also for a limit of 0.
C6_DepthWithinPassedLimit ==
  (Seeded /\ Returned /\ optDepth # <<>>) =>
    \A i \in 1..Len(result.nodes) : result.nodes[i].depth <= optDepth[1]

\* C7: at every point of buildDepGraphFromSeeds no two entries of the node
\* list have the same id.
C7_NodeIdsUnique ==
  Seeded => \A i, j \in 1..Len(nodes) : nodes[i].id = nodes[j].id => i = j

\* the same seed twice, and a file that two files import
C7_Witness ==
  /\ Seeded /\ Returned
  /\ Len(seeds) = 2 /\ seeds[1] = seeds[2]
  /\ \E e, f \in 1..Len(edges) :
       edges[e].to = edges[f].to /\ edges[e].from # edges[f].from

\* C8: in the graph either builder returns, a node is flagged isCircular
\* exactly when its id occurs in one of the returned cycles.
C8_CircularIffInCycle ==
  Returned =>
    \A i \in 1..Len(result.nodes) :
      result.nodes[i].isCircular <=>
        \E c \in 1..Len(result.cycles) : result.nodes[i].id \in Range(result.cycles[c])

\* two cycles, a node on the second only, and a node on none
C8_Witness ==
  /\ Returned
  /\ Len(result.cycles) = 2
  /\ \E i, j \in 1..Len(result.nodes) :
       /\ result.nodes[i].isCircular
       /\ result.nodes[i].id \notin Range(result.cycles[1])
       /\ ~result.nodes[j].isCircular

\* C9: the seeded traversal and detectCycles terminate, the dfs of
\* detectCycles being called at most once per node.
C9_Terminates ==
  /\ <>(pc = "done")
  /\ [](\A i, j \in 1..Len(dfsCalls) : dfsCalls[i] = dfsCalls[j] => i = j)

\* a finished seeded traversal of a graph with a self-import and a longer cycle
C9_Witness ==
  /\ Seeded /\ Returned
  /\ \E c \in 1..Len(result.cycles) : Len(result.cycles[c]) = 1
  /\ \E c \in 1..Len(result.cycles) : Len(result.cycles[c]) > 1

Slicing == op \in SliceOps /\ pc \in {"slice", "done"}
FilePaths(fs) == {fs[i].relativePath : i \in 1..Len(fs)}
ExcludedPaths(ex) == {ex[i].file : i \in 1..Len(ex)}

\* C2: every node of the bounded graph is in exactly one of the returned
\* lists files and excluded: disjoint by path, and together as many as the nodes.
C2_SlicePartitionsNodes ==
  (op \in SliceOps /\ Returned) =>
    /\ FilePaths(result.files) \cap ExcludedPaths(result.excluded) = {}
    /\ FilePaths(result.files) \cup ExcludedPaths(result.excluded) = NodeIds(nodes)
    /\ Len(result.files) + Len(result.excluded) = Len(nodes)

\* a slice with an included file, a pattern exclusion and a stat failure
C2_Witness ==
  /\ op \in SliceOps /\ Returned
  /\ result.files # <<>>
  /\ \E i, j \in 1..Len(result.excluded) :
       result.excluded[i].reason = "pattern" /\ result.excluded[j].reason = "external"

\* C3: after every iteration and at return the running total of the active
\* dimension is within the active ceiling, and no included file is larger
\* than maxFileBytes.
C3_WithinBudgetAndCap ==
  Slicing =>
    /\ tokenBudget # <<>> => totalTokens <= tokenBudget[1]
    /\ tokenBudget = <<>> => totalBytes <= maxBytes
    /\ \A i \in 1..Len(files) : files[i].sizeBytes <= maxFileBytes
    /\ Returned => /\ result.summary.totalBytes = totalBytes
                   /\ result.summary.totalTokens = totalTokens
                   /\ result.files = files

\* three files whose tokens add up to exactly the token ceiling
C3_Witness ==
  /\ op \in SliceOps /\ Returned
  /\ tokenBudget # <<>>
  /\ Len(result.files) = 3
  /\ result.summary.totalTokens = tokenBudget[1]

\* the files the loop would include at iteration i: past the pattern, stat and
\* cap tests, with a cost that fits in what is left of the active budget
Fits(i) ==
  /\ log[i].branch \in {"include", "token_budget", "byte_budget"}
  /\ IF tokenBudget # <<>>
       THEN log[i].tokensBefore + log[i].tokens <= tokenBudget[1]
       ELSE log[i].bytesBefore + log[i].size <= maxBytes

\* the totals right after iteration i
BytesAfter(i) == IF i < Len(log) THEN log[i + 1].bytesBefore ELSE totalBytes
TokensAfter(i) == IF i < Len(log) THEN log[i + 1].tokensBefore ELSE totalTokens

\* C4: a budget exclusion leaves both totals as they were and the loop goes
\* on: every node of sortedNodes is evaluated, in order, and is included
\* whenever its cost fits; ceiling 100 with sizes 40, 70, 30 gives y, w
\* included, z excluded, total 70.
C4_GreedyContinue ==
  Slicing =>
    /\ \A i \in 1..Len(log) :
         /\ log[i].branch \in {"token_budget", "byte_budget"} =>
              BytesAfter(i) = log[i].bytesBefore /\ TokensAfter(i) = log[i].tokensBefore
         /\ Fits(i) => log[i].path \in FilePaths(files)
         /\ log[i].path = sortedNodes[i].id
    /\ Returned => Len(log) = Len(sortedNodes)
    /\ (/\ Returned
        /\ tokenBudget = <<>> /\ maxBytes = 100 /\ maxFileBytes >= 70
        /\ opts.exclude \cap NodeIds(nodes) = {}
        /\ [i \in 1..Len(log) |-> log[i].size] = <<40, 70, 30>>
        /\ \A i \in 1..Len(log) : log[i].branch # "stat")
       => /\ [i \in 1..Len(result.files) |-> result.files[i].relativePath]
               = <<log[1].path, log[3].path>>
          /\ [i \in 1..Len(result.excluded) |-> result.excluded[i].file] = <<log[2].path>>
          /\ result.summary.totalBytes = 70

\* the scenario: 40 included, 70 skipped for the byte budget, 30 included
C4_Witness ==
  /\ op \in SliceOps /\ Returned
  /\ tokenBudget = <<>> /\ maxBytes = 100
  /\ [i \in 1..Len(log) |-> log[i].size] = <<40, 70, 30>>
  /\ [i \in 1..Len(log) |-> log[i].branch] = <<"include", "byte_budget", "include">>

\* C10: a second invocation on the same tree with the same arguments returns
\* the same record as the first.
C10_SameRecord ==
  (run = 2 /\ Returned) => result = first

\* the two records agree in everything but generatedAt
C10_SameButTimestamp ==
  (run = 2 /\ Returned) => [result EXCEPT !.generatedAt = 0] = [first EXCEPT !.generatedAt = 0]

SeededOps == {"buildDepGraphFromSeeds", "sliceFeature", "sliceRoute"}

\* C11: when no supplied seed is an existing file, a seeded operation does
\* not return a graph or slice: it reports a failure to its caller.
C11_EmptySeedSetFails ==
  (op \in SeededOps /\ \A i \in 1..Len(seeds) : seeds[i] \notin disk) => ~Returned

\* C12: a seed that does not exist is no node of the returned seeded graph,
\* and every seed that exists is one.
C12_MissingSeedSkipped ==
  (Seeded /\ Returned) =>
    \A i \in 1..Len(seeds) : seeds[i] \in NodeIds(result.nodes) <=> seeds[i] \in disk

\* the file system's answer for the node evaluated in iteration i
ReadAt(i) == fsNow[log[i].path]
WasRead(i) == log[i].branch # "pattern"

\* C13: a node whose file cannot be accessed at slicing time (stat fails, or
\* the content cannot be read) is excluded with reason external, both totals
\* stay as they were, nothing is thrown and every remaining node is processed.
C13_InaccessibleIsExternal ==
  Slicing =>
    /\ \A i \in 1..Len(log) :
         (WasRead(i) /\ (~ReadAt(i).ok \/ ~ReadAt(i).readable)) =>
           /\ [file |-> log[i].path, reason |-> "external"] \in Range(excluded)
           /\ BytesAfter(i) = log[i].bytesBefore
           /\ TokensAfter(i) = log[i].tokensBefore
    /\ Returned => Len(log) = Len(sortedNodes)

\* the part of C13 the code keeps: a failed stat
C13_StatFailureIsExternal ==
  Slicing =>
    /\ \A i \in 1..Len(log) :
         (WasRead(i) /\ ~ReadAt(i).ok) =>
           /\ [file |-> log[i].path, reason |-> "external"] \in Range(excluded)
           /\ BytesAfter(i) = log[i].bytesBefore
           /\ TokensAfter(i) = log[i].tokensBefore
    /\ Returned => Len(log) = Len(sortedNodes)

\* C14: a node skipped only for the budget carries the budget reason:
\* token_budget in token mode, and in byte mode a reason other than the
\* per-file cap's reason size.
C14_BudgetReasonDistinct ==
  Slicing =>
    \A i \in 1..Len(log) :
      /\ log[i].branch = "token_budget" =>
           [file |-> log[i].path, reason |-> "token_budget"] \in Range(excluded)
      /\ log[i].branch = "byte_budget" =>
           [file |-> log[i].path, reason |-> "size"] \notin Range(excluded)

\* C15: with a model profile the enforced token ceiling is the maxTokens
\* override whenever one is supplied, and contextWindow - reserveForOutput
\* otherwise.
C15_TokenCeiling ==
  (Slicing /\ opts.model # <<>>) =>
    tokenBudget = IF opts.maxTokens # <<>>
                    THEN opts.maxTokens
                    ELSE <<opts.model[1].contextWindow - opts.model[1].reserveForOutput>>

\* C18: the external-package count of a returned seeded graph is the number
\* of distinct external packages its nodes import.
C18_SeededExternalCount ==
  (Seeded /\ Returned) =>
    result.stats.externalDeps =
      Cardinality(UNION {ExternalPkgs(id) : id \in NodeIds(result.nodes)})

\* the resolver call of a state: its specifier, its importing file, and
\* whether it has returned
FromFile == CHOOSE f \in DOMAIN index : TRUE
ImportSpec == index[FromFile][1]
Resolved == op = "resolveImport" /\ pc = "done"

\* the specifier's path without a trailing source extension
Unsuffixed(rest) ==
  LET seg == rest[Len(rest)]
  IN  IF Len(seg) > 1 /\ seg[Len(seg)] \in {".tsx", ".ts", ".jsx", ".js", ".mjs"}
        THEN [rest EXCEPT ![Len(rest)] = SubSeq(seg, 1, Len(seg) - 1)]
        ELSE rest

\* the directory a non-external specifier is resolved against
AnchorOf(importSpec, fromFile) ==
  LET fromDir == SubSeq(fromFile, 1, Len(fromFile) - 1)
  IN  CASE importSpec.prefix = "@/" -> << <<"src">> >>
        [] importSpec.prefix = "~/" -> <<>>
        [] importSpec.prefix = "./" -> fromDir
        [] importSpec.prefix = "../" ->
             IF fromDir = <<>> THEN << <<"..">> >> ELSE SubSeq(fromDir, 1, Len(fromDir) - 1)

\* the direct candidate and the index candidate for an extension
DirectOf(base, e) == [base EXCEPT ![Len(base)] = Append(@, e)]
IndexOfDir(base, e) == Append(base, <<"index", e>>)
ExpectedOrder(base) ==
  <<DirectOf(base, ".tsx"), DirectOf(base, ".ts"), DirectOf(base, ".jsx"),
    DirectOf(base, ".js"), DirectOf(base, ".mjs"),
    IndexOfDir(base, ".tsx"), IndexOfDir(base, ".ts"), IndexOfDir(base, ".jsx"),
    IndexOfDir(base, ".js"), IndexOfDir(base, ".mjs")>>

\* C16: for a relative or alias-prefixed specifier none of whose candidate
\* files exists, resolveImport returns path null with isExternal false.
C16_MissIsNotExternal ==
  (/\ Resolved
   /\ ImportSpec.prefix \in {"./", "../", "@/", "~/"}
   /\ LET base == AnchorOf(ImportSpec, FromFile) \o Unsuffixed(ImportSpec.rest)
      IN  Range(ExpectedOrder(base)) \cap disk = {})
    => result = [path |-> <<>>, isExternal |-> FALSE]

\* a miss in a tree that holds other files, after all ten lookups
C16_Witness ==
  /\ Resolved
  /\ ImportSpec.prefix \in {"./", "@/"}
  /\ disk # {}
  /\ result.path = <<>> /\ ~result.isExternal
  /\ Len(fsNow) = 10

\* C17: a specifier that is neither '.'-prefixed nor alias-prefixed is
\* external for resolveImport, with no file lookup; in a returned graph of
\* either builder every edge comes from a non-package import of its source
\* and every node is a seed, an indexed file or the target of an edge.
C17_PackageNeverLookedUpNorInGraph ==
  /\ (Resolved /\ ImportSpec.prefix \notin {"./", "../", "@/", "~/"}) =>
       /\ result = [path |-> <<>>, isExternal |-> TRUE]
       /\ fsNow = <<>>
  /\ (op \in GraphOps /\ Returned) =>
       /\ \A i \in 1..Len(result.edges) :
            [kind |-> "rel", to |-> result.edges[i].to]
              \in Range(ImportsOf(result.edges[i].from))
       /\ \A i \in 1..Len(result.nodes) :
            \/ result.nodes[i].id \in Range(seeds)
            \/ op = "buildDepGraph" /\ result.nodes[i].id \in DOMAIN index
            \/ \E j \in 1..Len(result.edges) : result.edges[j].to = result.nodes[i].id

\* a bare specifier x while x.ts exists beside the importing file
C17_Witness ==
  /\ Resolved
  /\ ImportSpec = [prefix |-> "", rest |-> << <<"x">> >>]
  /\ FromFile = << <<"a", ".ts">> >>
  /\ << <<"x", ".ts">> >> \in disk
  /\ result.isExternal

\* C19: tryResolveFile strips a trailing source extension and returns the
\* first existing candidate in the order stripped+.tsx, .ts, .jsx, .js, .mjs,
\* then stripped/index.tsx, .ts, .jsx, .js, .mjs; null exactly when none exists.
C19_FirstCandidateInOrder ==
  (Resolved /\ ImportSpec.prefix \in {"./", "../", "@/", "~/"}) =>
    LET base == AnchorOf(ImportSpec, FromFile) \o Unsuffixed(ImportSpec.rest)
        order == ExpectedOrder(base)
        hits == {i \in 1..Len(order) : order[i] \in disk}
    IN  /\ hits = {} <=> result.path = <<>>
        /\ hits # {} =>
             result.path = <<order[CHOOSE i \in hits : \A j \in hits : i <= j]>>
        /\ fsNow = SubSeq(order, 1, Len(fsNow))

\* "./x.js" with both x.ts and x/index.tsx in the tree: the direct file wins
C19_Witness ==
  /\ Resolved
  /\ ImportSpec = [prefix |-> "./", rest |-> << <<"x", ".js">> >>]
  /\ FromFile = << <<"a", ".ts">> >>
  /\ disk = {<< <<"x", ".ts">> >>, << <<"x">>, <<"index", ".tsx">> >>}
  /\ result.path = << << <<"x", ".ts">> >> >>

\* C20: '@/x' is resolved as src/x and '~/x' as x under the repository
\* root, wherever the importing file is: a direct file when one exists,
\* else an index file of that path, else a miss that is not external.
C20_AliasFromFixedRoot ==
  (Resolved /\ ImportSpec.prefix \in {"@/", "~/"}) =>
    LET root == IF ImportSpec.prefix = "@/" THEN << <<"src">> >> ELSE <<>>
        base == root \o Unsuffixed(ImportSpec.rest)
        direct == {DirectOf(base, e) : e \in {".tsx", ".ts", ".jsx", ".js", ".mjs"}}
        idx == {IndexOfDir(base, e) : e \in {".tsx", ".ts", ".jsx", ".js", ".mjs"}}
    IN  /\ ~result.isExternal
        /\ IF direct \cap disk # {}
             THEN result.path # <<>> /\ result.path[1] \in direct \cap disk
           ELSE IF idx \cap disk # {}
             THEN result.path # <<>> /\ result.path[1] \in idx \cap disk
           ELSE result.path = <<>>

\* '~/x' imported from src/a.ts falls back to x/index.ts at the root although
\* src/x.ts exists beside the importing file
C20_Witness ==
  /\ Resolved
  /\ ImportSpec = [prefix |-> "~/", rest |-> << <<"x">> >>]
  /\ FromFile = << <<"src">>, <<"a", ".ts">> >>
  /\ disk = {<< <<"src">>, <<"x", ".ts">> >>, << <<"x">>, <<"index", ".ts">> >>}
  /\ result.path = << << <<"x">>, <<"index", ".ts">> >> >>

\* C21: with a missing or malformed tsconfig.json an alias-style specifier
\* is external for resolveImport: isExternal true, path null, no file lookup.
C21_AliasExternalWithoutTable ==
  (Resolved /\ loadTsConfigPaths = <<>> /\ ImportSpec.prefix \in {"@/", "~/"}) =>
    /\ result = [path |-> <<>>, isExternal |-> TRUE]
    /\ fsNow = <<>>

\* the files reachable from the seeds
Reachable == Within(NumFiles)

\* the resolved imports reachable from the single seed form one directed
\* ring through it: every reachable file has exactly one resolved import, and
\* some reachable file imports the seed
SeedOnRing ==
  /\ Len(seeds) = 1
  /\ \A p \in Reachable : Len(ResolvedImports(p)) = 1
  /\ seeds[1] \in UNION {Imports(p) : p \in Reachable}

\* C22: for a single ring reachable from the seed within maxDepth, the
\* nodes are exactly the ring's files, exactly one cycle is reported, it
\* holds every file of the ring exactly once, and every node is flagged.
C22_RingIsOneCycle ==
  (Seeded /\ Returned /\ SeedOnRing /\ maxDepth >= Cardinality(Reachable) - 1) =>
    /\ NodeIds(result.nodes) = Reachable
    /\ Len(result.nodes) = Cardinality(Reachable)
    /\ Len(result.cycles) = 1
    /\ Range(result.cycles[1]) = Reachable
    /\ Len(result.cycles[1]) = Cardinality(Reachable)
    /\ \A i \in 1..Len(result.nodes) : result.nodes[i].isCircular

\* the scenario: a ring of three files, the seed being one of them
C22_Witness ==
  /\ Seeded /\ Returned /\ SeedOnRing
  /\ Cardinality(Reachable) = 3
  /\ Len(result.cycles) = 1
  /\ Len(result.cycles[1]) = 3

\* the edges recorded for a source, in the order they were recorded
EdgesFrom(es, id) == SelectSeq(es, LAMBDA e : e.from = id)

\* C26: dequeuing an already-visited path changes neither the node list nor
\* the edge list, and once the traversal is over the outbound edges of every
\* node are its resolved imports, recorded exactly once.
C26_FinalizedOnce ==
  /\ [][(Seeded /\ pc = "build" /\ queue # <<>> /\ Head(queue).path \in visited)
          => (nodes' = nodes /\ edges' = edges /\ edgeMap' = edgeMap)]_vars
  /\ [](Seeded /\ pc # "build" =>
          \A i \in 1..Len(nodes) :
            EdgesFrom(edges, nodes[i].id) =
              [j \in 1..Len(ResolvedImports(nodes[i].id)) |->
                 [from |-> nodes[i].id, to |-> ResolvedImports(nodes[i].id)[j]]])

\* a node two other nodes import, with an import of its own
C26_Witness ==
  /\ Seeded /\ Returned
  /\ \E i \in 1..Len(result.nodes) :
       LET id == result.nodes[i].id
       IN  /\ Cardinality({e \in 1..Len(result.edges) :
                             result.edges[e].to = id /\ result.edges[e].from # id}) >= 2
           /\ EdgesFrom(result.edges, id) # <<>>

\* s has no entry twice
Distinct(s) == \A i, j \in 1..Len(s) : i # j => s[i] # s[j]

\* c is a closed chain of recorded internal imports
ClosedChain(c) ==
  /\ c # <<>>
  /\ \A i \in 1..(Len(c) - 1) : c[i + 1] \in Range(EdgeMapGet(edgeMap, c[i]))
  /\ c[1] \in Range(EdgeMapGet(edgeMap, c[Len(c)]))

\* C27: every emitted cycle is the end of the current DFS path, from the
\* first occurrence of the on-stack neighbour through the current node; its
\* entries are pairwise distinct, consecutive entries are joined by an
\* internal edge, and the last entry has an edge back to the first.
C27_CycleIsPathSlice ==
  /\ [][cycles' # cycles =>
          LET c == cycles'[Len(cycles')]
              k == Len(currentPath) - Len(c)
          IN  /\ cycles' = Append(cycles, c)
              /\ k >= 0
              /\ c = SubSeq(currentPath, k + 1, Len(currentPath))
              /\ c[1] \notin Range(SubSeq(currentPath, 1, k))
              /\ c[1] \in Range(EdgeMapGet(edgeMap, currentPath[Len(currentPath)]))]_vars
  /\ [](op \in GraphOps =>
          \A i \in 1..Len(cycles) : Distinct(cycles[i]) /\ ClosedChain(cycles[i]))

\* a cycle just emitted that starts below the root of the current DFS path
C27_Witness ==
  /\ op \in GraphOps /\ pc = "cycles"
  /\ cycles # <<>>
  /\ Len(cycles[Len(cycles)]) >= 2
  /\ Len(cycles[Len(cycles)]) < Len(currentPath)
  /\ cycles[Len(cycles)][Len(cycles[Len(cycles)])] = currentPath[Len(currentPath)]

\* the keys' neighbours in the edge map, and what is reachable in 1..k steps
Neighbours(S) == UNION {Range(EdgeMapGet(edgeMap, p)) : p \in S}

RECURSIVE After(_, _)
After(S, k) ==
  IF k = 1 THEN Neighbours(S) ELSE Neighbours(S) \cup After(Neighbours(S), k - 1)

\* the edge map holds a directed cycle (a self-import is one)
HasCycle == \E p \in Paths : p \in After({p}, NumFiles)

\* C29: detectCycles returns a non-empty list exactly when the edge map
\* holds a directed cycle; for an acyclic map no node is flagged isCircular.
C29_CyclesIffCyclic ==
  (op \in GraphOps /\ pc \in {"mark", "return", "done"}) =>
    /\ cycles # <<>> <=> HasCycle
    /\ (pc = "done" /\ ~HasCycle) =>
         /\ result.cycles = <<>>
         /\ \A i \in 1..Len(result.nodes) : ~result.nodes[i].isCircular

\* a self-import, reported as a cycle of one file
C29_Witness ==
  /\ op \in GraphOps /\ Returned
  /\ \E i \in 1..Len(result.cycles) : Len(result.cycles[i]) = 1
  /\ \E i \in 1..Len(result.nodes) : ~result.nodes[i].isCircular

\* chains longer than the number of files reach nothing new
DepthCap == IF maxDepth < NumFiles THEN maxDepth ELSE NumFiles

\* C30: the nodes of a returned seeded graph are exactly the seeds and the
\* files within maxDepth resolved internal imports of a seed.
C30_NodesAreReachableWithinDepth ==
  (Seeded /\ Returned) =>
    /\ NodeIds(result.nodes) = Within(DepthCap)
    /\ Len(result.nodes) = Cardinality(Within(DepthCap))

\* depth limit 1: a file one import away is a node, a file two away is not
C30_Witness ==
  /\ Seeded /\ Returned
  /\ maxDepth = 1
  /\ Within(1) # Within(0)
  /\ Within(2) # Within(1)
  /\ NodeIds(result.nodes) = Within(1)

\* the depth the graph gives a path
NodeDepth(id) == nodes[CHOOSE i \in 1..Len(nodes) : nodes[i].id = id].depth

\* (depth, path) of a comes strictly before that of b
DepthPathBefore(da, pa, db, pb) == da < db \/ (da = db /\ pa < pb)

\* C28: the slicer takes the nodes in (depth, path) ascending order, so the
\* lists files and excluded are each ordered by (depth, path); no included
\* file of greater depth precedes one of smaller depth.
C28_OutputInDepthPathOrder ==
  Slicing =>
    /\ \A i \in 1..(Len(sortedNodes) - 1) :
         DepthPathBefore(sortedNodes[i].depth, sortedNodes[i].id,
                         sortedNodes[i + 1].depth, sortedNodes[i + 1].id)
    /\ \A i, j \in 1..Len(files) :
         i < j => DepthPathBefore(files[i].depth, files[i].relativePath,
                                  files[j].depth, files[j].relativePath)
    /\ \A i, j \in 1..Len(excluded) :
         i < j => DepthPathBefore(NodeDepth(excluded[i].file), excluded[i].file,
                                  NodeDepth(excluded[j].file), excluded[j].file)

\* a slice whose graph listed its nodes in another order than (depth, path)
C28_Witness ==
  /\ op \in SliceOps /\ Returned
  /\ sortedNodes # nodes
  /\ Len(result.files) >= 2
  /\ result.excluded # <<>>

\* --------------------------------------------------------------- C25
Drawn == op = "requestFlowToMermaid" /\ pc = "done"

ParticipantTypes == {"page", "component", "api", "external"}

\* the ids the diagram declares with a participant line
DeclaredParticipants ==
  {result[i].id : i \in {j \in 1..Len(result) : result[j].kind = "participant"}}

RequestTypes == {"query", "mutation", "fetch"}

ResponseTo(type) ==
  IF type = "query" THEN "data" ELSE IF type = "mutation" THEN "result" ELSE "response"

\* what the claim asks of one edge: who calls whom, and the answer
Exchange(edge) ==
  <<[kind |-> "request", from |-> edge.from, to |-> edge.to],
    [kind |-> "response", from |-> edge.to, to |-> edge.from,
     label |-> ResponseTo(edge.type)]>>

RECURSIVE Exchanges(_)
Exchanges(es) ==
  IF es = <<>> THEN <<>>
  ELSE (IF /\ Head(es).type \in RequestTypes
           /\ Head(es).from \in DeclaredParticipants
           /\ Head(es).to \in DeclaredParticipants
          THEN Exchange(Head(es)) ELSE <<>>) \o Exchanges(Tail(es))

IsInteraction(line) == line.kind \in {"request", "response"}

\* the interaction lines of the returned diagram, without the request labels
Interactions ==
  LET ls == SelectSeq(result, IsInteraction)
  IN  [i \in 1..Len(ls) |->
         IF ls[i].kind = "request"
           THEN [kind |-> "request", from |-> ls[i].from, to |-> ls[i].to]
           ELSE ls[i]]

\* C25: the interaction lines of the diagram are, in edge order, a request
\* line followed by the matching response line for every query, mutation or
\* fetch edge between two declared participants, and nothing else.
C25_RequestThenResponse ==
  Drawn => Interactions = Exchanges(graph.edges)

\* the part of C25 the code keeps: participants whose label is not empty
C25_LabelledRequestThenResponse ==
  (Drawn /\ \A i \in 1..Len(graph.nodes) : graph.nodes[i].label # <<>>)
    => Interactions = Exchanges(graph.edges)

\* --------------------------------------------------------- C23, C24
Proposing == op = "runProposeConfirmLoop"

LastAnswer == answers[Len(answers)]

ApprovedWrites == SelectSeq(written, LAMBDA w : w.file = "APPROVED_PLAN.md")

ActShown == "ACT" \in Range(console)

ChoseApprove ==
  \E i \in 1..Len(answers) : answers[i].prompt = "confirm" /\ answers[i].answer = "approve"

\* the step that answers the confirm prompt with Approve
ApproveStep ==
  /\ pc = "confirm"
  /\ answers' = Append(answers, [prompt |-> "confirm", answer |-> "approve"])

\* a step that writes APPROVED_PLAN.md or prints the ACT instructions
SavesOrShows ==
  \/ written' # written /\ written'[Len(written')].file = "APPROVED_PLAN.md"
  \/ console' # console /\ "ACT" \in Range(console')

\* C23: APPROVED_PLAN.md is written and the ACT instructions are shown only
\* by the step in which the user approves, with the plan and the action then
\* under review; a run without an Approve (ended by Quit, by Ctrl+C, or still
\* going) has written no approved plan and shown no ACT instructions.
C23_ApprovedOnlyOnApprove ==
  /\ [][Proposing /\ SavesOrShows
          => /\ ApproveStep
             /\ written' = Append(written,
                                  [file |-> "APPROVED_PLAN.md",
                                   content |-> [approvedAt |-> now,
                                                action |-> selectedAction[1].title,
                                                plan |-> proposedPlan[1]]])
             /\ "ACT" \in Range(console') /\ ~ActShown
             /\ pc' = "returned"]_vars
  /\ [](Proposing /\ ~ChoseApprove => ApprovedWrites = <<>> /\ ~ActShown)
  /\ [](Proposing /\ ChoseApprove =>
          Len(ApprovedWrites) = 1 /\ ActShown /\ pc = "returned"
            /\ LastAnswer.answer = "approve")

\* a revised plan was approved after a Modify round, and it is the one saved
C23_Witness ==
  /\ Proposing /\ pc = "returned" /\ ChoseApprove
  /\ \E i \in 1..Len(answers) : answers[i].prompt = "revised"
  /\ ApprovedWrites[1].content.plan = proposedPlan[1]
  /\ feedback # <<>>

\* C24: answering the confirm prompt with Reject leads to the action menu,
\* where every listed action and the custom request can be chosen again,
\* and at every prompt Ctrl+C ends the loop, as Quit does at the action
\* menu and at the confirm prompt.
C24_RejectReselectsAndEscapable ==
  /\ [][Proposing /\ pc = "confirm"
          /\ answers' = Append(answers, [prompt |-> "confirm", answer |-> "reject"])
          => pc' = "select"]_vars
  /\ [](Proposing /\ pc = "select" /\ Len(answers) < MaxAnswers =>
          \A selection \in (0..Len(Actions) - 1) \cup {CustomRequest} :
            ENABLED (SelectAction /\ LastAnswer' = [prompt |-> "select",
                                                   answer |-> ChoiceName(selection)]))
  /\ [](Proposing /\ pc \in Prompts => ENABLED (CtrlC /\ pc' = "returned"))
  /\ [](Proposing /\ pc \in {"select", "confirm"} => ENABLED (Quit /\ pc' = "returned"))
  /\ [](Proposing => pc \in Prompts \cup {"returned"})

\* a plan for one action was rejected and another action was then chosen
C24_Witness ==
  /\ Proposing
  /\ \E i \in 1..Len(answers) : answers[i] = [prompt |-> "confirm", answer |-> "reject"]
  /\ selectedAction # <<>>
  /\ answers[1].answer # selectedAction[1].title
  /\ pc = "plan"

====
